---- MODULE Spec2Model ----
(***************************************************************************)
(* FloodGuard backend (server.js): the prediction pipeline.                *)
(*                                                                         *)
(* JavaScript numbers are modelled as fixed-point integers with two        *)
(* decimal digits: the number x is the integer x * Scale.  Every literal   *)
(* the code compares against (2.5, 0.7, 2.1, ...) and every input the      *)
(* model draws has at most two decimals, so additions and comparisons are  *)
(* exact; the one product, risk * 1.3, is only taken of whole numbers.     *)
(***************************************************************************)
EXTENDS Integers, Sequences, FiniteSets, TLC

Scale == 10 * 10

\* The number whose decimal expansion is whole.frac (frac in hundredths).
Num(whole, frac) == whole * Scale + frac

Min(a, b) == IF a < b THEN a ELSE b
Max(a, b) == IF a > b THEN a ELSE b

\* Math.round: the nearest integer, a tie going towards +infinity.
MathRound(x) == ((x + Scale \div 2) \div Scale) * Scale

\* Number.isInteger
IsInteger(x) == x % Scale = 0

----------------------------------------------------------------------------
(* calculateRiskFallback, server.js 174-205, statement by statement.        *)

\* if (rainfall > 50) ... else risk += rainfall        (lines 178-183)
RainfallContribution(rainfall) ==
    IF rainfall > Num(50, 0) THEN Num(45, 0)
    ELSE IF rainfall > Num(30, 0) THEN Num(38, 0)
    ELSE IF rainfall > Num(20, 0) THEN Num(28, 0)
    ELSE IF rainfall > Num(10, 0) THEN Num(18, 0)
    ELSE IF rainfall > Num(5, 0) THEN Num(10, 0)
    ELSE rainfall

\* if (waterLevel > 5) ... (no else branch)             (lines 186-190)
WaterLevelContribution(waterLevel) ==
    IF waterLevel > Num(5, 0) THEN Num(35, 0)
    ELSE IF waterLevel > Num(4, 0) THEN Num(28, 0)
    ELSE IF waterLevel > Num(3, 0) THEN Num(20, 0)
    ELSE IF waterLevel > Num(2, 50) THEN Num(12, 0)
    ELSE IF waterLevel > Num(2, 0) THEN Num(5, 0)
    ELSE 0

\* A plausible slip: the soil-moisture buckets tested with >= instead of >.
SoilMoistureContributionInclusive(soilMoisture) ==
    IF soilMoisture >= Num(0, 90) THEN Num(20, 0)
    ELSE IF soilMoisture >= Num(0, 80) THEN Num(16, 0)
    ELSE IF soilMoisture >= Num(0, 70) THEN Num(12, 0)
    ELSE IF soilMoisture >= Num(0, 60) THEN Num(8, 0)
    ELSE IF soilMoisture >= Num(0, 50) THEN Num(4, 0)
    ELSE 0

\* if (soilMoisture > 0.9) ... (no else branch)         (lines 193-197)
SoilMoistureContribution(soilMoisture) ==
    IF soilMoisture > Num(0, 90) THEN Num(20, 0)
    ELSE IF soilMoisture > Num(0, 80) THEN Num(16, 0)
    ELSE IF soilMoisture > Num(0, 70) THEN Num(12, 0)
    ELSE IF soilMoisture > Num(0, 60) THEN Num(8, 0)
    ELSE IF soilMoisture > Num(0, 50) THEN Num(4, 0)
    ELSE 0

\* A plausible slip: the combined condition tested with >= instead of >.
CombinedRiskInclusive(rainfall, waterLevel, soilMoisture) ==
    /\ rainfall >= Num(20, 0)
    /\ waterLevel >= Num(3, 0)
    /\ soilMoisture >= Num(0, 70)

\* rainfall > 20 && waterLevel > 3 && soilMoisture > 0.7   (line 200)
CombinedRisk(rainfall, waterLevel, soilMoisture) ==
    /\ rainfall > Num(20, 0)
    /\ waterLevel > Num(3, 0)
    /\ soilMoisture > Num(0, 70)

\* risk * 1.3
Times13(risk) == (risk * 13) \div 10

\* A plausible slip: the final Math.round left out.
calculateRiskFallbackNoRound(rainfall, waterLevel, soilMoisture) ==
    LET risk3 == RainfallContribution(rainfall)
                 + WaterLevelContribution(waterLevel)
                 + SoilMoistureContribution(soilMoisture)
        risk4 == IF CombinedRisk(rainfall, waterLevel, soilMoisture)
                 THEN Min(Times13(risk3), Num(100, 0))
                 ELSE risk3
    IN  Min(risk4, Num(100, 0))

\* A plausible slip: the >30 and >20 rainfall buckets exchanged.
calculateRiskFallbackSwapped(rainfall, waterLevel, soilMoisture) ==
    LET rain  == IF rainfall > Num(50, 0) THEN Num(45, 0)
                 ELSE IF rainfall > Num(30, 0) THEN Num(28, 0)
                 ELSE IF rainfall > Num(20, 0) THEN Num(38, 0)
                 ELSE IF rainfall > Num(10, 0) THEN Num(18, 0)
                 ELSE IF rainfall > Num(5, 0) THEN Num(10, 0)
                 ELSE rainfall
        risk3 == rain + WaterLevelContribution(waterLevel)
                 + SoilMoistureContribution(soilMoisture)
        risk4 == IF CombinedRisk(rainfall, waterLevel, soilMoisture)
                 THEN Min(Times13(risk3), Num(100, 0))
                 ELSE risk3
    IN  Min(MathRound(risk4), Num(100, 0))

calculateRiskFallback(rainfall, waterLevel, soilMoisture) ==
    LET risk3 == RainfallContribution(rainfall)
                 + WaterLevelContribution(waterLevel)
                 + SoilMoistureContribution(soilMoisture)
        risk4 == IF CombinedRisk(rainfall, waterLevel, soilMoisture)
                 THEN Min(Times13(risk3), Num(100, 0))
                 ELSE risk3
    IN  Min(MathRound(risk4), Num(100, 0))

\* A plausible slip: the thresholds tested with <= instead of <.
RiskLevelInclusive(riskPercent) ==
    IF riskPercent <= Num(30, 0) THEN "low"
    ELSE IF riskPercent <= Num(70, 0) THEN "medium"
    ELSE "high"

\* riskPercent < 30 ? 'low' : riskPercent < 70 ? 'medium' : 'high'  (line 365)
RiskLevel(riskPercent) ==
    IF riskPercent < Num(30, 0) THEN "low"
    ELSE IF riskPercent < Num(70, 0) THEN "medium"
    ELSE "high"

----------------------------------------------------------------------------
(* Inputs of the heuristic: every bucket boundary with the values one      *)
(* hundredth below and above it, the linear stretch of the rainfall in     *)
(* half millimetres, the inputs the prediction test and the specification  *)
(* name, and two negative rainfalls.                                       *)

Around(T) == UNION {{t - 1, t, t + 1} : t \in T}

RainfallInputs ==
    {h * (Scale \div 2) : h \in 0..12}
    \cup (Around({Num(5, 0), Num(10, 0), Num(20, 0), Num(30, 0), Num(50, 0)}))
    \cup {Num(15, 0), Num(20, 10), Num(25, 0), Num(45, 0), Num(49, 0),
          Num(51, 0), Num(55, 0), Num(60, 0)}
    \cup {0 - Num(3, 0), 0 - Num(0, 50)}

WaterLevelInputs ==
    Around({Num(2, 0), Num(2, 50), Num(3, 0), Num(4, 0), Num(5, 0)})
    \cup {0, Num(1, 50), Num(1, 80), Num(2, 10), Num(2, 20), Num(2, 80),
          Num(3, 10), Num(3, 50), Num(4, 20), Num(4, 50), Num(5, 20),
          Num(5, 50), Num(6, 0)}

SoilMoistureInputs ==
    Around({Num(0, 50), Num(0, 60), Num(0, 70), Num(0, 80), Num(0, 90)})
    \cup {0, Num(0, 10), Num(0, 20), Num(0, 30), Num(0, 40), Num(0, 95),
          Num(1, 0)}

\* The ranges the specification quantifies over.
InRange(rainfall, waterLevel, soilMoisture) ==
    /\ 0 <= rainfall /\ rainfall <= Num(60, 0)
    /\ 0 <= waterLevel /\ waterLevel <= Num(6, 0)
    /\ 0 <= soilMoisture /\ soilMoisture <= Num(1, 0)

----------------------------------------------------------------------------
(* The three data sources, server.js 285-338.  A provider response is what  *)
(* axios.get settles with: a rejection (timeout, network error, non-2xx     *)
(* status) or a 2xx response whose body has one of the shapes below.        *)

FailureKinds == {"timeout", "network", "status"}

Reading(v, src) == [value |-> v, source |-> src]

Pending == [state |-> "pending"]
Fulfilled(reading) == [state |-> "fulfilled", value |-> reading]
Rejected == [state |-> "rejected"]

Threw == [threw |-> TRUE]
Returns(reading) == [threw |-> FALSE, value |-> reading]

\* x || 0 on an optional number: absent and 0 are both falsy.
OrZero(opt) == IF opt = <<>> \/ opt[1] = 0 THEN 0 ELSE opt[1]

\* OpenWeatherMap bodies: no forecast list, or a first forecast whose
\* rain['3h'] is absent (<<>>) or a number (<<v>>).
\* The try block of fetchRainfallData (lines 287-297).
RainfallTry(resp) ==
    IF resp.kind # "ok" THEN Threw
    ELSE IF ~resp.list THEN Threw
    ELSE Returns(Reading(OrZero(resp.rain3h), "OpenWeatherMap"))

fetchRainfallData(resp) ==
    LET body == RainfallTry(resp)
    IN  IF body.threw THEN Fulfilled(Reading(0, "fallback"))
        ELSE Fulfilled(body.value)

\* parseFloat of a decimal numeral, given as <<sign, whole, hundredths>>.
parseFloat(text) == text[1] * Num(text[2], text[3])

\* USGS bodies: null, or an object in which the optional chain
\* value?.timeSeries?.[0]?.values?.[0]?.value?.[0]?.value ends in
\* undefined (val = <<>>) or in a non-empty numeral (val = <<text>>).
\* The try block of fetchWaterLevel (lines 306-315).
WaterLevelTry(resp) ==
    IF resp.kind # "ok" THEN Threw
    ELSE IF ~resp.data THEN Threw
    ELSE Returns(Reading(IF resp.val # <<>> THEN parseFloat(resp.val[1])
                         ELSE Num(2, 10),
                         "USGS"))

\* A plausible slip: the catch block of fetchWaterLevel rethrows.
fetchWaterLevelNoCatch(resp) ==
    LET body == WaterLevelTry(resp)
    IN  IF body.threw THEN Rejected
        ELSE Fulfilled(body.value)

fetchWaterLevel(resp) ==
    LET body == WaterLevelTry(resp)
    IN  IF body.threw THEN Fulfilled(Reading(Num(2, 10), "fallback"))
        ELSE Fulfilled(body.value)

\* SoilGrids bodies: no properties.layers[0].depths[0].values path, or a
\* mean that is null (<<>>) or a whole number (<<m>>).
\* The try block of fetchSoilMoisture (lines 324-333).
SoilMoistureTry(resp) ==
    IF resp.kind # "ok" THEN Threw
    ELSE IF ~resp.layers THEN Threw
    ELSE Returns(Reading(IF resp.mean # <<>> /\ resp.mean[1] # 0
                         THEN Num(resp.mean[1], 0) \div 100
                         ELSE Num(0, 50),
                         "SoilGrids"))

fetchSoilMoisture(resp) ==
    LET body == SoilMoistureTry(resp)
    IN  IF body.threw THEN Fulfilled(Reading(Num(0, 50), "fallback"))
        ELSE Fulfilled(body.value)

----------------------------------------------------------------------------
(* predictFloodRisk, server.js 207-250.  A loaded model is an opaque        *)
(* function: one inference either throws (or finds TensorFlow missing) or   *)
(* yields prediction.dataSync()[0] * 100, given here as a fixed-point       *)
(* number.                                                                  *)

\* predictFloodRisk without the test of loadedModel (lines 210-212).
predictFloodRiskNoNullTest(loadedModel, inf, rainfall, waterLevel, soilMoisture) ==
    IF inf.threw
    THEN [risk |-> calculateRiskFallback(rainfall, waterLevel, soilMoisture),
          via |-> "fallbackAfterError"]
    ELSE [risk |-> Max(0, Min(MathRound(inf.out100), Num(100, 0))),
          via |-> "model"]

\* predictFloodRisk with a catch block that returns 0 (lines 246-249).
predictFloodRiskCatchGivesZero(loadedModel, inf, rainfall, waterLevel, soilMoisture) ==
    IF loadedModel = "null"
    THEN [risk |-> calculateRiskFallback(rainfall, waterLevel, soilMoisture),
          via |-> "fallback"]
    ELSE IF inf.threw
    THEN [risk |-> 0, via |-> "fallbackAfterError"]
    ELSE [risk |-> Max(0, Min(MathRound(inf.out100), Num(100, 0))),
          via |-> "model"]

predictFloodRisk(loadedModel, inf, rainfall, waterLevel, soilMoisture) ==
    IF loadedModel = "null"
    THEN [risk |-> calculateRiskFallback(rainfall, waterLevel, soilMoisture),
          via |-> "fallback"]
    ELSE IF inf.threw
    THEN [risk |-> calculateRiskFallback(rainfall, waterLevel, soilMoisture),
          via |-> "fallbackAfterError"]
    ELSE [risk |-> Max(0, Min(MathRound(inf.out100), Num(100, 0))),
          via |-> "model"]

\* const lat = 6.45, lng = 3.39                                  (line 348)
Lat == Num(6, 45)
Lng == Num(3, 39)

----------------------------------------------------------------------------
VARIABLES
    args,   \* the argument triple of one call of calculateRiskFallback
    ret,    \* <<>> before the call returns, <<value>> after
    provider,  \* what each of the three providers answers to one request
    fetched,   \* the promise of each of the three fetch calls
    listening,            \* the server.listen callback has run
    firebaseInitialized,  \* let firebaseInitialized                (line 65)
    model,                \* let model: "null" or "loaded"           (line 93)
    modelLoadAttempted,   \* let modelLoadAttempted                  (line 94)
    usingFallback,        \* let usingFallback                       (line 95)
    loadOwner,            \* who awaits the load in progress: -1 nobody,
                          \* 0 the listen callback, n > 0 cycle n
    ticks,                \* cron ticks fired so far
    clock,                \* Date.now, counted in records created
    cycle,                \* the cron callbacks in flight: id -> its locals
    store,                \* the FloodData collection: id -> document
    emitted,              \* the floodUpdate events emitted, in order
    fcm,                  \* the messages handed to admin.messaging().send
    sendOutcome,          \* how send settled for each record: id -> delivered?
    outcome,              \* how each finished cycle ended
    scoredVia,            \* which path of predictFloodRisk scored each cycle
    alert,                \* direct calls of the alert step on one record: the
                          \* record, the call's position, how each call returned
    triggers              \* POST /api/trigger requests answered

hvars == <<args, ret>>
fvars == <<provider, fetched>>
avars == <<alert, triggers>>
pvars == <<listening, firebaseInitialized, model, modelLoadAttempted,
           usingFallback, loadOwner, ticks, clock, cycle, store, emitted,
           fcm, sendOutcome, outcome, scoredVia>>
vars == <<args, ret, provider, fetched, listening, firebaseInitialized, model,
          modelLoadAttempted, usingFallback, loadOwner, ticks, clock, cycle,
          store, emitted, fcm, sendOutcome,
          outcome, scoredVia, alert, triggers>>

modelVars == <<model, modelLoadAttempted, usingFallback, loadOwner>>

\* The state of the module before any callback has run.
PipelineInit ==
    /\ listening = FALSE
    /\ firebaseInitialized \in BOOLEAN
    /\ model = "null"
    /\ modelLoadAttempted = FALSE
    /\ usingFallback = FALSE
    /\ loadOwner = -1
    /\ ticks = 0
    /\ clock = 0
    /\ cycle = <<>>
    /\ store = <<>>
    /\ emitted = <<>>
    /\ fcm = <<>>
    /\ sendOutcome = <<>>
    /\ outcome = <<>>
    /\ scoredVia = <<>>

\* No call of calculateRiskFallback under check.
NoCall ==
    /\ args = [rainfall |-> 0, waterLevel |-> 0, soilMoisture |-> 0]
    /\ ret = <<>>

\* No fetch under check.
NoFetch ==
    /\ provider = <<>>
    /\ fetched = <<>>

\* No direct call of the alert step under check.
NoAlert == alert = <<>>

\* No request to POST /api/trigger so far.
NoTrigger == triggers = 0

HeurInit ==
    /\ args \in [rainfall : RainfallInputs,
                 waterLevel : WaterLevelInputs,
                 soilMoisture : SoilMoistureInputs]
    /\ ret = <<>>
    /\ NoFetch
    /\ NoAlert
    /\ NoTrigger
    /\ PipelineInit
    /\ firebaseInitialized = FALSE

CallFallback ==
    /\ ret = <<>>
    /\ ret' = <<calculateRiskFallback(args.rainfall, args.waterLevel,
                                      args.soilMoisture)>>
    /\ UNCHANGED args
    /\ UNCHANGED <<fvars, avars, pvars>>

HeurNext == CallFallback

SpecHeur == HeurInit /\ [][HeurNext]_vars

----------------------------------------------------------------------------
(* What the providers and the model may answer.                            *)

RainfallResp(k, l, r) == [kind |-> k, list |-> l, rain3h |-> r]
WaterLevelResp(k, d, v) == [kind |-> k, data |-> d, val |-> v]
SoilMoistureResp(k, l, m) == [kind |-> k, layers |-> l, mean |-> m]

RainfallResponses ==
    {RainfallResp(k, FALSE, <<>>) : k \in FailureKinds}
    \cup {RainfallResp("ok", FALSE, <<>>)}
    \cup {RainfallResp("ok", TRUE, r) :
            r \in {<<>>, <<0>>, <<0 - Num(3, 0)>>, <<Num(55, 0)>>}}

WaterLevelResponses ==
    {WaterLevelResp(k, FALSE, <<>>) : k \in FailureKinds}
    \cup {WaterLevelResp("ok", FALSE, <<>>)}
    \cup {WaterLevelResp("ok", TRUE, v) :
            v \in {<<>>, << <<1, 0, 0>> >>, << <<1, 2, 10>> >>,
                   << <<1, 5, 20>> >>}}

SoilMoistureResponses ==
    {SoilMoistureResp(k, FALSE, <<>>) : k \in FailureKinds}
    \cup {SoilMoistureResp("ok", FALSE, <<>>)}
    \cup {SoilMoistureResp("ok", TRUE, m) :
            m \in {<<>>, <<0>>, <<95>>}}

Inference(t, o) == [threw |-> t, out100 |-> o]

InferenceOutcomes ==
    {Inference(TRUE, 0)}
    \cup {Inference(FALSE, o) :
            o \in {0 - Num(12, 30), Num(29, 49), Num(29, 50), Num(69, 49),
                   Num(69, 50), Num(150, 0)}}

\* The answers used where cycles overlap: the rainfall source fails or
\* reports 55mm, the other two report 5.2m and 95; an inference throws or
\* yields 0.12.  The heuristic then scores 55 or 100, the model 12.
FewRainfallResponses ==
    {RainfallResp("timeout", FALSE, <<>>),
     RainfallResp("ok", TRUE, <<Num(55, 0)>>)}
FewWaterLevelResponses == {WaterLevelResp("ok", TRUE, << <<1, 5, 20>> >>)}
FewSoilMoistureResponses == {SoilMoistureResp("ok", TRUE, <<95>>)}
FewInferenceOutcomes == {Inference(TRUE, 0), Inference(FALSE, Num(12, 0))}

\* Cron ticks modelled where each cycle ends before the next tick.
MaxTicks == 1
\* Cron ticks modelled where cycles are free to overlap.
MaxOverlapTicks == 2

----------------------------------------------------------------------------
(* loadModel, server.js 97-171, up to its first await.                      *)

\* loadModel without the test of modelLoadAttempted (line 99).
loadModelResultNoFlag == IF model # "null" THEN "model" ELSE "pending"

\* What the call returns at once; "pending" when this call starts the load.
loadModelResult ==
    IF model # "null" THEN "model"
    ELSE IF modelLoadAttempted THEN "null"
    ELSE "pending"

CallLoadModel(caller) ==
    /\ modelLoadAttempted' =
          (IF loadModelResult = "pending" THEN TRUE ELSE modelLoadAttempted)
    /\ loadOwner' = (IF loadModelResult = "pending" THEN caller ELSE loadOwner)
    /\ UNCHANGED <<model, usingFallback>>

\* server.listen callback (lines 669-687): loadModel().then(...)
ServerListen ==
    /\ ~listening
    /\ listening' = TRUE
    /\ CallLoadModel(0)
    /\ UNCHANGED <<hvars, fvars, avars, firebaseInitialized, ticks, clock,
                   cycle, store, emitted, fcm, sendOutcome, outcome,
                   scoredVia>>

\* The load in progress ends: the model is loaded (line 161-163), the model
\* file is missing (125-130), or TensorFlow or the load throws (165-170).
\* A cycle that was awaiting it resumes in predictFloodRisk (line 208).
LoadSettles(result) ==
    /\ loadOwner # -1
    /\ model' = (IF result = "loaded" THEN "loaded" ELSE model)
    /\ usingFallback' = (IF result = "loaded" THEN usingFallback ELSE TRUE)
    /\ loadOwner' = -1
    /\ cycle' = (IF loadOwner \in DOMAIN cycle
                 THEN [cycle EXCEPT ![loadOwner] =
                         [@ EXCEPT !.pc = "scoring",
                                   !.loadedModel =
                                      IF result = "loaded" THEN "model"
                                      ELSE "null"]]
                 ELSE cycle)
    /\ UNCHANGED <<hvars, fvars, avars, listening, firebaseInitialized,
                   modelLoadAttempted, ticks, clock, store, emitted, fcm,
                   sendOutcome,
                   outcome, scoredVia>>

\* modelStatus in the answer of GET /api/stats (line 466); the log tag of
\* line 367 tests the same flag.
modelStatus == IF usingFallback THEN "fallback" ELSE "ai-model"

----------------------------------------------------------------------------
(* The cron callback, server.js 343-402, cut at its awaits.                 *)

\* The locals of a callback that has just started its three fetches.
NewCycle ==
    [pc |-> "fetching",
     rainfallData |-> Pending, waterLevelData |-> Pending,
     soilMoistureData |-> Pending,
     loadedModel |-> "unset",
     newData |-> <<>>]

InFlight == DOMAIN cycle

\* The callback returns, normally or through its catch block (399-401).
End(c, how) ==
    /\ cycle' = [k \in InFlight \ {c} |-> cycle[k]]
    /\ outcome' = outcome @@ (c :> how)

\* A scheduler that stops firing once a callback has ended in an error.
TickUnlessFailed(limit, lanes) ==
    /\ listening
    /\ ticks < limit
    /\ Cardinality(InFlight) < lanes
    /\ \A i \in DOMAIN outcome : outcome[i] = "completed"
    /\ ticks' = ticks + 1
    /\ cycle' = cycle @@ ((ticks + 1) :> NewCycle)
    /\ UNCHANGED <<hvars, fvars, avars, listening, firebaseInitialized,
                   modelVars, clock, store, emitted, fcm, sendOutcome,
                   outcome, scoredVia>>

\* cron fires: Promise.all([fetchRainfallData, fetchWaterLevel,
\* fetchSoilMoisture]) is started (lines 343-356).
Tick(limit, lanes) ==
    /\ listening
    /\ ticks < limit
    /\ Cardinality(InFlight) < lanes
    /\ ticks' = ticks + 1
    /\ cycle' = cycle @@ ((ticks + 1) :> NewCycle)
    /\ UNCHANGED <<hvars, fvars, avars, listening, firebaseInitialized, modelVars,
                   clock, store, emitted, fcm,
                   sendOutcome, outcome, scoredVia>>

FetchRainfallSettles(c, resp) ==
    /\ cycle[c].pc = "fetching"
    /\ cycle[c].rainfallData = Pending
    /\ cycle' = [cycle EXCEPT ![c].rainfallData = fetchRainfallData(resp)]
    /\ UNCHANGED <<hvars, fvars, avars, listening, firebaseInitialized, modelVars,
                   ticks, clock, store, emitted, fcm,
                   sendOutcome, outcome, scoredVia>>

FetchWaterLevelSettles(c, resp) ==
    /\ cycle[c].pc = "fetching"
    /\ cycle[c].waterLevelData = Pending
    /\ cycle' = [cycle EXCEPT ![c].waterLevelData = fetchWaterLevel(resp)]
    /\ UNCHANGED <<hvars, fvars, avars, listening, firebaseInitialized, modelVars,
                   ticks, clock, store, emitted, fcm,
                   sendOutcome, outcome, scoredVia>>

FetchSoilMoistureSettles(c, resp) ==
    /\ cycle[c].pc = "fetching"
    /\ cycle[c].soilMoistureData = Pending
    /\ cycle' = [cycle EXCEPT ![c].soilMoistureData = fetchSoilMoisture(resp)]
    /\ UNCHANGED <<hvars, fvars, avars, listening, firebaseInitialized, modelVars,
                   ticks, clock, store, emitted, fcm,
                   sendOutcome, outcome, scoredVia>>

\* Promise.all over two of the three fetches only.
PromisesOfTwo(c) == {cycle[c].rainfallData, cycle[c].waterLevelData}

Promises(c) ==
    {cycle[c].rainfallData, cycle[c].waterLevelData, cycle[c].soilMoistureData}

\* Promise.all settles (line 352): it rejects with the first rejection and
\* the catch block ends the callback; it resolves once all three have, and
\* predictFloodRisk calls loadModel (lines 359, 208).
AwaitFetches(c) ==
    /\ cycle[c].pc = "fetching"
    /\ \/ Rejected \in Promises(c)
       \/ \A p \in Promises(c) : p.state = "fulfilled"
    /\ IF Rejected \in Promises(c)
       THEN /\ End(c, "fetchError")
            /\ UNCHANGED modelVars
       ELSE /\ CallLoadModel(c)
            /\ cycle' = [cycle EXCEPT ![c] =
                  [@ EXCEPT !.pc = IF loadModelResult = "pending"
                                   THEN "loading" ELSE "scoring",
                            !.loadedModel = loadModelResult]]
            /\ UNCHANGED outcome
    /\ UNCHANGED <<hvars, fvars, avars, listening, firebaseInitialized, ticks, clock,
                   store, emitted, fcm, sendOutcome, scoredVia>>

\* new FloodData({...}) (lines 370-383); sentAlert and timestamp take their
\* schema defaults (lines 44, 52).
FloodData(c, rainfallData, waterLevelData, soilMoistureData, riskPercent) ==
    [id |-> c,
     timestamp |-> clock + 1,
     lat |-> Lat, lng |-> Lng,
     rainfall |-> rainfallData.value,
     waterLevel |-> waterLevelData.value,
     soilMoisture |-> soilMoistureData.value,
     prediction |-> riskPercent,
     riskLevel |-> RiskLevel(riskPercent),
     sentAlert |-> FALSE,
     dataSource |-> [rainfall |-> rainfallData.source,
                     waterLevel |-> waterLevelData.source,
                     soilMoisture |-> soilMoistureData.source]]

\* predictFloodRisk answers, the record is built and newData.save() is
\* started (lines 359-385).
Scoring(c, inf) ==
    /\ cycle[c].pc = "scoring"
    /\ LET scored == predictFloodRisk(cycle[c].loadedModel, inf,
                                      cycle[c].rainfallData.value.value,
                                      cycle[c].waterLevelData.value.value,
                                      cycle[c].soilMoistureData.value.value)
           doc == FloodData(c, cycle[c].rainfallData.value,
                            cycle[c].waterLevelData.value,
                            cycle[c].soilMoistureData.value, scored.risk)
       IN  /\ cycle' = [cycle EXCEPT ![c] =
                  [@ EXCEPT !.pc = "saving", !.newData = <<doc>>]]
           /\ scoredVia' = scoredVia @@ (c :> scored.via)
    /\ clock' = clock + 1
    /\ UNCHANGED <<hvars, fvars, avars, listening, firebaseInitialized, modelVars,
                   ticks, store, emitted, fcm, sendOutcome,
                   outcome>>

\* The guard without the test of firebaseInitialized.
AlertGuardIgnoresFirebase(data) == ~data.sentAlert

\* The guard without the test of data.sentAlert.
AlertGuardIgnoresSentAlert(data) == firebaseInitialized

\* if (!firebaseInitialized || data.sentAlert) return;          (line 256)
AlertGuardPasses(data) == ~(~firebaseInitialized \/ data.sentAlert)

\* The message of sendFloodAlert (lines 258-270), by its data part.
Message(data) ==
    [topic |-> "flood_alerts", id |-> data.id, lat |-> data.lat,
     lng |-> data.lng, risk |-> data.prediction, level |-> data.riskLevel]

\* The callback with io.emit (line 389) ahead of the save (line 385).
SaveSettlesEmitsFirst(c, saved) ==
    /\ cycle[c].pc = "saving"
    /\ LET doc == cycle[c].newData[1]
           alerting == doc.riskLevel # "low" /\ AlertGuardPasses(doc)
       IN  IF ~saved
           THEN /\ End(c, "saveError")
                /\ emitted' = Append(emitted, doc)
                /\ UNCHANGED <<store, fcm>>
           ELSE /\ store' = store @@ (c :> doc)
                /\ emitted' = Append(emitted, doc)
                /\ IF alerting
                   THEN /\ fcm' = Append(fcm, Message(doc))
                        /\ cycle' = [cycle EXCEPT ![c].pc = "sending"]
                        /\ UNCHANGED outcome
                   ELSE /\ End(c, "completed")
                        /\ UNCHANGED fcm
    /\ UNCHANGED <<hvars, fvars, avars, listening, firebaseInitialized, modelVars,
                   ticks, clock, sendOutcome, scoredVia>>

\* The callback without io.emit (line 389).
SaveSettlesNoEmit(c, saved) ==
    /\ cycle[c].pc = "saving"
    /\ LET doc == cycle[c].newData[1]
           alerting == doc.riskLevel # "low" /\ AlertGuardPasses(doc)
       IN  IF ~saved
           THEN /\ End(c, "saveError")
                /\ UNCHANGED <<store, emitted, fcm>>
           ELSE /\ store' = store @@ (c :> doc)
                /\ UNCHANGED emitted
                /\ IF alerting
                   THEN /\ fcm' = Append(fcm, Message(doc))
                        /\ cycle' = [cycle EXCEPT ![c].pc = "sending"]
                        /\ UNCHANGED outcome
                   ELSE /\ End(c, "completed")
                        /\ UNCHANGED fcm
    /\ UNCHANGED <<hvars, fvars, avars, listening, firebaseInitialized, modelVars,
                   ticks, clock, sendOutcome, scoredVia>>

\* The callback without the test of riskLevel (line 393).
SaveSettlesAlertsLow(c, saved) ==
    /\ cycle[c].pc = "saving"
    /\ LET doc == cycle[c].newData[1]
           alerting == AlertGuardPasses(doc)
       IN  IF ~saved
           THEN /\ End(c, "saveError")
                /\ UNCHANGED <<store, emitted, fcm>>
           ELSE /\ store' = store @@ (c :> doc)
                /\ emitted' = Append(emitted, doc)
                /\ IF alerting
                   THEN /\ fcm' = Append(fcm, Message(doc))
                        /\ cycle' = [cycle EXCEPT ![c].pc = "sending"]
                        /\ UNCHANGED outcome
                   ELSE /\ End(c, "completed")
                        /\ UNCHANGED fcm
    /\ UNCHANGED <<hvars, fvars, avars, listening, firebaseInitialized, modelVars,
                   ticks, clock, sendOutcome, scoredVia>>

\* newData.save() settles (line 385).  Saved: the record is emitted (389)
\* and, unless the risk is low, sendFloodAlert is called (393-394), which
\* returns at once or starts admin.messaging().send (256, 273).  Failed:
\* the catch block ends the callback.
SaveSettles(c, saved) ==
    /\ cycle[c].pc = "saving"
    /\ LET doc == cycle[c].newData[1]
           alerting == doc.riskLevel # "low" /\ AlertGuardPasses(doc)
       IN  IF ~saved
           THEN /\ End(c, "saveError")
                /\ UNCHANGED <<store, emitted, fcm>>
           ELSE /\ store' = store @@ (c :> doc)
                /\ emitted' = Append(emitted, doc)
                /\ IF alerting
                   THEN /\ fcm' = Append(fcm, Message(doc))
                        /\ cycle' = [cycle EXCEPT ![c].pc = "sending"]
                        /\ UNCHANGED outcome
                   ELSE /\ End(c, "completed")
                        /\ UNCHANGED fcm
    /\ UNCHANGED <<hvars, fvars, avars, listening, firebaseInitialized, modelVars,
                   ticks, clock, sendOutcome, scoredVia>>

\* sendFloodAlert without its catch block (lines 277-279): the rejection
\* reaches the catch block of the callback.
SendSettlesRethrows(c, delivered) ==
    /\ cycle[c].pc = "sending"
    /\ IF delivered
       THEN /\ cycle' = [cycle EXCEPT ![c] =
                  [@ EXCEPT !.pc = "updating",
                            !.newData = <<[@[1] EXCEPT !.sentAlert = TRUE]>>]]
            /\ UNCHANGED outcome
       ELSE End(c, "sendError")
    /\ sendOutcome' = sendOutcome @@ (c :> delivered)
    /\ UNCHANGED <<hvars, fvars, avars, listening, firebaseInitialized, modelVars,
                   ticks, clock, store, emitted, fcm, scoredVia>>

\* admin.messaging().send settles (lines 273-279).  Delivered: sentAlert is
\* set on the document and data.save() is started.  Failed: the error is
\* logged and the callback ends.
SendSettles(c, delivered) ==
    /\ cycle[c].pc = "sending"
    /\ IF delivered
       THEN /\ cycle' = [cycle EXCEPT ![c] =
                  [@ EXCEPT !.pc = "updating",
                            !.newData = <<[@[1] EXCEPT !.sentAlert = TRUE]>>]]
            /\ UNCHANGED outcome
       ELSE End(c, "completed")
    /\ sendOutcome' = sendOutcome @@ (c :> delivered)
    /\ UNCHANGED <<hvars, fvars, avars, listening, firebaseInitialized, modelVars,
                   ticks, clock, store, emitted, fcm, scoredVia>>

\* data.save() writing a fresh timestamp along with sentAlert.
UpdateSettlesRestamps(c, saved) ==
    /\ cycle[c].pc = "updating"
    /\ store' = (IF saved
                 THEN [store EXCEPT ![c].sentAlert = cycle[c].newData[1].sentAlert,
                                     ![c].timestamp = clock + 1]
                 ELSE store)
    /\ End(c, "completed")
    /\ UNCHANGED <<hvars, fvars, avars, listening, firebaseInitialized, modelVars,
                   ticks, clock, emitted, fcm, sendOutcome,
                   scoredVia>>

\* data.save() inserting the modified document as a second record instead of
\* updating the stored one.
UpdateSettlesInsertsCopy(c, saved) ==
    /\ cycle[c].pc = "updating"
    /\ store' = (IF saved
                 THEN store @@ ((0 - c) :> cycle[c].newData[1])
                 ELSE store)
    /\ End(c, "completed")
    /\ UNCHANGED <<hvars, fvars, avars, listening, firebaseInitialized, modelVars,
                   ticks, clock, emitted, fcm, sendOutcome,
                   scoredVia>>

\* data.save() settles (lines 276-279): the stored document takes the
\* modified path, or the rejection is logged; the callback ends.
UpdateSettles(c, saved) ==
    /\ cycle[c].pc = "updating"
    /\ store' = (IF saved
                 THEN [store EXCEPT ![c].sentAlert = cycle[c].newData[1].sentAlert]
                 ELSE store)
    /\ End(c, "completed")
    /\ UNCHANGED <<hvars, fvars, avars, listening, firebaseInitialized, modelVars,
                   ticks, clock, emitted, fcm, sendOutcome,
                   scoredVia>>

LoadResults == {"loaded", "missing", "failed"}

NextWith(Rain, Water, Soil, Inf, limit, lanes) ==
    \/ ServerListen
    \/ \E result \in LoadResults : LoadSettles(result)
    \/ Tick(limit, lanes)
    \/ \E c \in InFlight : \E resp \in Rain : FetchRainfallSettles(c, resp)
    \/ \E c \in InFlight : \E resp \in Water : FetchWaterLevelSettles(c, resp)
    \/ \E c \in InFlight : \E resp \in Soil : FetchSoilMoistureSettles(c, resp)
    \/ \E c \in InFlight : AwaitFetches(c)
    \/ \E c \in InFlight : \E inf \in Inf : Scoring(c, inf)
    \/ \E c \in InFlight : \E saved \in BOOLEAN : SaveSettles(c, saved)
    \/ \E c \in InFlight : \E delivered \in BOOLEAN : SendSettles(c, delivered)
    \/ \E c \in InFlight : \E saved \in BOOLEAN : UpdateSettles(c, saved)

Init ==
    /\ NoCall
    /\ NoFetch
    /\ NoAlert
    /\ NoTrigger
    /\ PipelineInit

\* One cycle at a time, every answer.
Next ==
    NextWith(RainfallResponses, WaterLevelResponses, SoilMoistureResponses,
             InferenceOutcomes, MaxTicks, 1)

Spec == Init /\ [][Next]_vars

\* Cycles free to overlap (nothing in the callback waits for the previous
\* one), few answers.
OverlapNext ==
    NextWith(FewRainfallResponses, FewWaterLevelResponses,
             FewSoilMoistureResponses, FewInferenceOutcomes,
             MaxOverlapTicks, MaxOverlapTicks)

SpecOverlap == Init /\ [][OverlapNext]_vars

----------------------------------------------------------------------------
(* The three fetch functions alone: each provider's answer is drawn from    *)
(* every answer modelled, and each call settles once.                       *)

FetchInit ==
    /\ NoCall
    /\ NoAlert
    /\ NoTrigger
    /\ provider \in [rainfall : RainfallResponses,
                     waterLevel : WaterLevelResponses,
                     soilMoisture : SoilMoistureResponses]
    /\ fetched = [rainfall |-> Pending, waterLevel |-> Pending,
                  soilMoisture |-> Pending]
    /\ PipelineInit
    /\ firebaseInitialized = FALSE

CallFetchRainfallData ==
    /\ fetched.rainfall = Pending
    /\ fetched' = [fetched EXCEPT
                     !.rainfall = fetchRainfallData(provider.rainfall)]
    /\ UNCHANGED <<hvars, provider, avars, pvars>>

CallFetchWaterLevel ==
    /\ fetched.waterLevel = Pending
    /\ fetched' = [fetched EXCEPT
                     !.waterLevel = fetchWaterLevel(provider.waterLevel)]
    /\ UNCHANGED <<hvars, provider, avars, pvars>>

CallFetchSoilMoisture ==
    /\ fetched.soilMoisture = Pending
    /\ fetched' = [fetched EXCEPT
                     !.soilMoisture = fetchSoilMoisture(provider.soilMoisture)]
    /\ UNCHANGED <<hvars, provider, avars, pvars>>

FetchNext ==
    \/ CallFetchRainfallData
    \/ CallFetchWaterLevel
    \/ CallFetchSoilMoisture

SpecFetch == FetchInit /\ [][FetchNext]_vars

----------------------------------------------------------------------------
(* The alert step alone: if (riskLevel !== 'low') await                     *)
(* sendFloodAlert(newData), server.js 393-395 and 255-280, called on one    *)
(* saved record again and again, as a caller holding the document would.    *)

\* Direct calls of the alert step modelled on the record.
MaxAlertCalls == 3

AlertPredictions ==
    {0, Num(29, 0), Num(30, 0), Num(69, 0), Num(70, 0), Num(100, 0)}

\* The state after record 1, scored by the loaded model, was saved and
\* emitted (line 389), the document still in the caller's hands.
AlertInit ==
    /\ NoCall
    /\ NoFetch
    /\ NoTrigger
    /\ listening = TRUE
    /\ firebaseInitialized \in BOOLEAN
    /\ model = "loaded"
    /\ modelLoadAttempted = TRUE
    /\ usingFallback = FALSE
    /\ loadOwner = -1
    /\ ticks = 1
    /\ clock = 1
    /\ cycle = <<>>
    /\ \E riskPercent \in AlertPredictions :
          LET newData ==
                 [FloodData(1, Reading(Num(55, 0), "OpenWeatherMap"),
                            Reading(Num(5, 20), "USGS"),
                            Reading(Num(0, 95), "SoilGrids"), riskPercent)
                    EXCEPT !.timestamp = 1]
          IN  /\ store = (1 :> newData)
              /\ emitted = <<newData>>
              /\ alert = [data |-> newData, pc |-> "idle", returned |-> <<>>]
    /\ fcm = <<>>
    /\ sendOutcome = <<>>
    /\ outcome = <<>>
    /\ scoredVia = (1 :> "model")

\* Lines 393-394 and 256-273: unless the risk is low the alert function is
\* called; it returns at once or builds the message and starts send.
CallSendFloodAlert ==
    /\ alert.pc = "idle"
    /\ Len(alert.returned) < MaxAlertCalls
    /\ IF alert.data.riskLevel # "low" /\ AlertGuardPasses(alert.data)
       THEN /\ fcm' = Append(fcm, Message(alert.data))
            /\ alert' = [alert EXCEPT !.pc = "sending"]
       ELSE /\ alert' = [alert EXCEPT !.returned = Append(@, "skipped")]
            /\ UNCHANGED fcm
    /\ UNCHANGED <<hvars, fvars, triggers, listening, firebaseInitialized,
                   modelVars, ticks, clock, cycle, store, emitted, sendOutcome, outcome,
                   scoredVia>>

\* Lines 273-279: send settles.
AlertSendSettles(delivered) ==
    /\ alert.pc = "sending"
    /\ alert' = (IF delivered
                 THEN [alert EXCEPT !.pc = "updating",
                                    !.data.sentAlert = TRUE]
                 ELSE [alert EXCEPT !.pc = "idle",
                                    !.returned = Append(@, "sendFailed")])
    /\ sendOutcome' = (alert.data.id :> delivered) @@ sendOutcome
    /\ UNCHANGED <<hvars, fvars, triggers, listening, firebaseInitialized,
                   modelVars, ticks, clock, cycle, store, emitted, fcm, outcome,
                   scoredVia>>

\* Lines 276-279: data.save() settles.
AlertUpdateSettles(saved) ==
    /\ alert.pc = "updating"
    /\ store' = (IF saved
                 THEN [store EXCEPT
                         ![alert.data.id].sentAlert = alert.data.sentAlert]
                 ELSE store)
    /\ alert' = [alert EXCEPT
                   !.pc = "idle",
                   !.returned = Append(@, IF saved THEN "sent"
                                          ELSE "updateFailed")]
    /\ UNCHANGED <<hvars, fvars, triggers, listening, firebaseInitialized,
                   modelVars, ticks, clock, cycle, emitted, fcm, sendOutcome, outcome,
                   scoredVia>>

AlertNext ==
    \/ CallSendFloodAlert
    \/ \E delivered \in BOOLEAN : AlertSendSettles(delivered)
    \/ \E saved \in BOOLEAN : AlertUpdateSettles(saved)

SpecAlert == AlertInit /\ [][AlertNext]_vars

----------------------------------------------------------------------------
(* POST /api/trigger, server.js 474-487, beside the scheduled cycles.       *)

\* Requests to POST /api/trigger modelled.
MaxTriggers == 1

\* The handler answers 'Data fetch triggered' and, 100ms later, builds a
\* new cron task whose callback is empty and runs it once with now(): the
\* callback of line 343 is not called and no other state is touched.
ManualTrigger ==
    /\ listening
    /\ triggers < MaxTriggers
    /\ triggers' = triggers + 1
    /\ UNCHANGED <<hvars, fvars, alert, pvars>>

\* Scheduled cycles, one at a time and with few answers, and requests to
\* the trigger route at any moment.
TriggerNext ==
    \/ NextWith(FewRainfallResponses, FewWaterLevelResponses,
                FewSoilMoistureResponses, FewInferenceOutcomes, MaxTicks, 1)
    \/ ManualTrigger

SpecTrigger == Init /\ [][TriggerNext]_vars

----------------------------------------------------------------------------
(* test-prediction.js: its own copy of the heuristic (lines 87-114), its    *)
(* model path (117-131), its scenarios (134-171) and the loop that scores   *)
(* and classifies each of them (177-195).                                   *)

\* Lines 90-95.
testRainfallPoints(rainfall) ==
    IF rainfall > Num(50, 0) THEN Num(45, 0)
    ELSE IF rainfall > Num(30, 0) THEN Num(38, 0)
    ELSE IF rainfall > Num(20, 0) THEN Num(28, 0)
    ELSE IF rainfall > Num(10, 0) THEN Num(18, 0)
    ELSE IF rainfall > Num(5, 0) THEN Num(10, 0)
    ELSE rainfall

\* Lines 97-101 with the step at 2.5 given 10 points instead of 12.
testWaterLevelPointsTenAtStep(waterLevel) ==
    IF waterLevel > Num(5, 0) THEN Num(35, 0)
    ELSE IF waterLevel > Num(4, 0) THEN Num(28, 0)
    ELSE IF waterLevel > Num(3, 0) THEN Num(20, 0)
    ELSE IF waterLevel > Num(2, 50) THEN Num(10, 0)
    ELSE IF waterLevel > Num(2, 0) THEN Num(5, 0)
    ELSE 0

\* Lines 97-101.
testWaterLevelPoints(waterLevel) ==
    IF waterLevel > Num(5, 0) THEN Num(35, 0)
    ELSE IF waterLevel > Num(4, 0) THEN Num(28, 0)
    ELSE IF waterLevel > Num(3, 0) THEN Num(20, 0)
    ELSE IF waterLevel > Num(2, 50) THEN Num(12, 0)
    ELSE IF waterLevel > Num(2, 0) THEN Num(5, 0)
    ELSE 0

\* Lines 103-107.
testSoilMoisturePoints(soilMoisture) ==
    IF soilMoisture > Num(0, 90) THEN Num(20, 0)
    ELSE IF soilMoisture > Num(0, 80) THEN Num(16, 0)
    ELSE IF soilMoisture > Num(0, 70) THEN Num(12, 0)
    ELSE IF soilMoisture > Num(0, 60) THEN Num(8, 0)
    ELSE IF soilMoisture > Num(0, 50) THEN Num(4, 0)
    ELSE 0

\* The test of line 109 with soilMoisture >= 0.7.
testCombinedRiskInclusive(rainfall, waterLevel, soilMoisture) ==
    /\ rainfall > Num(20, 0)
    /\ waterLevel > Num(3, 0)
    /\ soilMoisture >= Num(0, 70)

\* Line 109.
testCombinedRisk(rainfall, waterLevel, soilMoisture) ==
    /\ rainfall > Num(20, 0)
    /\ waterLevel > Num(3, 0)
    /\ soilMoisture > Num(0, 70)

\* Lines 87-114.
testCalculateRiskFallback(rainfall, waterLevel, soilMoisture) ==
    LET risk == testRainfallPoints(rainfall)
                + testWaterLevelPoints(waterLevel)
                + testSoilMoisturePoints(soilMoisture)
        combined == IF testCombinedRisk(rainfall, waterLevel, soilMoisture)
                    THEN Min(Times13(risk), Num(100, 0))
                    ELSE risk
    IN  Min(MathRound(combined), Num(100, 0))

\* Lines 117-131, the model's output given by the inference.
predictWithModel(inf) == Max(0, Min(MathRound(inf.out100), Num(100, 0)))

\* Line 186.
testRiskLevel(risk) ==
    IF risk < Num(30, 0) THEN "LOW"
    ELSE IF risk < Num(70, 0) THEN "MEDIUM"
    ELSE "HIGH"

TestCase(c, n, r, s, w) ==
    [category |-> c, name |-> n, rain |-> r, soil |-> s, water |-> w]

\* const testScenarios                                   (lines 134-171)
testScenarios ==
    {TestCase("LOW RISK", "Clear Day", 0, Num(0, 30), Num(1, 80)),
     TestCase("LOW RISK", "Light Drizzle", Num(3, 0), Num(0, 40), Num(2, 0)),
     TestCase("LOW RISK", "Dry Season", Num(1, 0), Num(0, 20), Num(1, 50)),
     TestCase("LOW RISK", "Normal Conditions", Num(5, 0), Num(0, 50),
              Num(2, 20)),
     TestCase("MEDIUM RISK", "Moderate Rain", Num(20, 0), Num(0, 60),
              Num(2, 80)),
     TestCase("MEDIUM RISK", "High Soil Moisture", Num(15, 0), Num(0, 80),
              Num(2, 50)),
     TestCase("MEDIUM RISK", "Rising Water", Num(18, 0), Num(0, 50),
              Num(3, 50)),
     TestCase("MEDIUM RISK", "Combined Medium", Num(22, 0), Num(0, 70),
              Num(3, 20)),
     TestCase("HIGH RISK", "Heavy Rainfall", Num(45, 0), Num(0, 70),
              Num(4, 20)),
     TestCase("HIGH RISK", "Very High Water", Num(25, 0), Num(0, 80),
              Num(5, 20)),
     TestCase("HIGH RISK", "Saturated Soil", Num(35, 0), Num(0, 95),
              Num(4, 50)),
     TestCase("HIGH RISK", "Extreme Conditions", Num(55, 0), Num(0, 90),
              Num(5, 50)),
     TestCase("EDGE CASES", "Maximum Values", Num(60, 0), Num(1, 0),
              Num(6, 0)),
     TestCase("EDGE CASES", "Minimum Values", 0, 0, 0),
     TestCase("EDGE CASES", "Mixed Low/High", Num(50, 0), Num(0, 20),
              Num(1, 50)),
     TestCase("EDGE CASES", "Mixed High/Low", Num(5, 0), Num(0, 90),
              Num(5, 0))}

\* One pass of the scenario loop on one test case: the script has loaded
\* its model or, failing that, set its own usingFallback (lines 17-84).
TestInit ==
    /\ args \in testScenarios
    /\ ret = <<>>
    /\ NoFetch
    /\ NoAlert
    /\ NoTrigger
    /\ PipelineInit
    /\ firebaseInitialized = FALSE

\* Lines 181-186 with usingFallback set.
TestWithFallback ==
    /\ ret = <<>>
    /\ LET risk == testCalculateRiskFallback(args.rain, args.water,
                                             args.soil)
       IN  ret' = <<[failed |-> FALSE, risk |-> risk,
                     riskLevel |-> testRiskLevel(risk),
                     usingFallback |-> TRUE]>>
    /\ UNCHANGED <<args, fvars, avars, pvars>>

\* Lines 181-186 with the model loaded; an inference that throws ends the
\* script in its catch block (line 258).
TestWithModel(inf) ==
    /\ ret = <<>>
    /\ ret' = (IF inf.threw THEN <<[failed |-> TRUE]>>
               ELSE LET risk == predictWithModel(inf)
                    IN  <<[failed |-> FALSE, risk |-> risk,
                           riskLevel |-> testRiskLevel(risk),
                           usingFallback |-> FALSE]>>)
    /\ UNCHANGED <<args, fvars, avars, pvars>>

TestNext ==
    \/ TestWithFallback
    \/ \E inf \in InferenceOutcomes : TestWithModel(inf)

SpecTest == TestInit /\ [][TestNext]_vars

----------------------------------------------------------------------------
(* The heuristic's claims, checked under SpecHeur.                         *)

Returned == ret # <<>>

\* C1: for rainfall in [0,60], waterLevel in [0,6] and soilMoisture in [0,1]
\* calculateRiskFallback returns an integer between 0 and 100 inclusive.
C1_FallbackIsIntegerInRange ==
    (Returned /\ InRange(args.rainfall, args.waterLevel, args.soilMoisture))
        => /\ IsInteger(ret[1])
           /\ 0 <= ret[1]
           /\ ret[1] <= Num(100, 0)

\* 2.5mm of rain, 2.1m of water, dry soil: 2.5 + 5 = 7.5, rounded to 8.
C1_Witness ==
    /\ args = [rainfall |-> Num(2, 50), waterLevel |-> Num(2, 10),
               soilMoisture |-> 0]
    /\ ret = <<Num(8, 0)>>

\* The reference heuristic, as the specification words it.
RefRainfallPoints(r) ==
    CASE r > Num(50, 0) -> Num(45, 0)
      [] r <= Num(50, 0) /\ r > Num(30, 0) -> Num(38, 0)
      [] r <= Num(30, 0) /\ r > Num(20, 0) -> Num(28, 0)
      [] r <= Num(20, 0) /\ r > Num(10, 0) -> Num(18, 0)
      [] r <= Num(10, 0) /\ r > Num(5, 0) -> Num(10, 0)
      [] OTHER -> r

RefWaterLevelPoints(w) ==
    CASE w > Num(5, 0) -> Num(35, 0)
      [] w <= Num(5, 0) /\ w > Num(4, 0) -> Num(28, 0)
      [] w <= Num(4, 0) /\ w > Num(3, 0) -> Num(20, 0)
      [] w <= Num(3, 0) /\ w > Num(2, 50) -> Num(12, 0)
      [] w <= Num(2, 50) /\ w > Num(2, 0) -> Num(5, 0)
      [] OTHER -> 0

RefSoilMoisturePoints(m) ==
    CASE m > Num(0, 90) -> Num(20, 0)
      [] m <= Num(0, 90) /\ m > Num(0, 80) -> Num(16, 0)
      [] m <= Num(0, 80) /\ m > Num(0, 70) -> Num(12, 0)
      [] m <= Num(0, 70) /\ m > Num(0, 60) -> Num(8, 0)
      [] m <= Num(0, 60) /\ m > Num(0, 50) -> Num(4, 0)
      [] OTHER -> 0

RefHeuristic(r, w, m) ==
    LET sum == RefRainfallPoints(r) + RefWaterLevelPoints(w)
               + RefSoilMoisturePoints(m)
        mul == IF r > Num(20, 0) /\ w > Num(3, 0) /\ m > Num(0, 70)
               THEN (sum * 13) \div 10 ELSE sum
    IN  MathRound(Max(0, Min(mul, Num(100, 0))))

\* C2: for every input triple calculateRiskFallback equals the reference
\* heuristic (bucket points summed, times 1.3 under the combined condition,
\* clamped to [0,100], rounded); in particular (0,0,0) scores 0.
C2_FallbackEqualsReference ==
    Returned =>
        /\ ret[1] = RefHeuristic(args.rainfall, args.waterLevel,
                                 args.soilMoisture)
        /\ (args = [rainfall |-> 0, waterLevel |-> 0, soilMoisture |-> 0]
                => ret[1] = 0)

\* The sum of the three contributions, before the multiplier.
BaseRisk(a) ==
    RainfallContribution(a.rainfall) + WaterLevelContribution(a.waterLevel)
    + SoilMoistureContribution(a.soilMoisture)

Unmultiplied(a) == Min(MathRound(BaseRisk(a)), Num(100, 0))
Multiplied(a) == Min(MathRound(Times13(BaseRisk(a))), Num(100, 0))

AllStrictlyAbove(a) ==
    /\ a.rainfall > Num(20, 0)
    /\ a.waterLevel > Num(3, 0)
    /\ a.soilMoisture > Num(0, 70)

\* C3: the 1.3 multiplier is applied if and only if rainfall > 20,
\* waterLevel > 3 and soilMoisture > 0.7 hold strictly together: (20, 3, 0.7)
\* gets none (score 38), (20.1, 3.1, 0.71) gets it (60 * 1.3 = 78).
C3_MultiplierIffAllStrict ==
    Returned =>
        /\ AllStrictlyAbove(args) => ret[1] = Multiplied(args)
        /\ ~AllStrictlyAbove(args) => ret[1] = Unmultiplied(args)
        /\ (Multiplied(args) # Unmultiplied(args))
               => ((ret[1] = Multiplied(args)) <=> AllStrictlyAbove(args))
        /\ (args = [rainfall |-> Num(20, 0), waterLevel |-> Num(3, 0),
                    soilMoisture |-> Num(0, 70)]) => ret[1] = Num(38, 0)
        /\ (args = [rainfall |-> Num(20, 10), waterLevel |-> Num(3, 10),
                    soilMoisture |-> Num(0, 71)]) => ret[1] = Num(78, 0)

C3_Witness ==
    /\ args = [rainfall |-> Num(20, 10), waterLevel |-> Num(3, 10),
               soilMoisture |-> Num(0, 71)]
    /\ ret = <<Num(78, 0)>>

\* C4: over rainfall in [0,60], waterLevel in [0,6], soilMoisture in [0,1]
\* the score never decreases when one input grows and the other two stay;
\* rainfall 49 -> 51 at waterLevel 2, soilMoisture 0.1 strictly raises it.
C4_Monotonic ==
    (Returned /\ InRange(args.rainfall, args.waterLevel, args.soilMoisture))
    => /\ \A r2 \in RainfallInputs :
            (r2 >= args.rainfall /\ r2 <= Num(60, 0))
            => calculateRiskFallback(r2, args.waterLevel, args.soilMoisture)
                 >= ret[1]
       /\ \A w2 \in WaterLevelInputs :
            (w2 >= args.waterLevel /\ w2 <= Num(6, 0))
            => calculateRiskFallback(args.rainfall, w2, args.soilMoisture)
                 >= ret[1]
       /\ \A m2 \in SoilMoistureInputs :
            (m2 >= args.soilMoisture /\ m2 <= Num(1, 0))
            => calculateRiskFallback(args.rainfall, args.waterLevel, m2)
                 >= ret[1]
       /\ (args = [rainfall |-> Num(49, 0), waterLevel |-> Num(2, 0),
                   soilMoisture |-> Num(0, 10)])
            => calculateRiskFallback(Num(51, 0), Num(2, 0), Num(0, 10))
                 > ret[1]

C4_Witness ==
    /\ args = [rainfall |-> Num(49, 0), waterLevel |-> Num(2, 0),
               soilMoisture |-> Num(0, 10)]
    /\ ret = <<Num(38, 0)>>
    /\ calculateRiskFallback(Num(51, 0), Num(2, 0), Num(0, 10)) = Num(45, 0)

HeavyRainfall ==
    [rainfall |-> Num(45, 0), waterLevel |-> Num(4, 20),
     soilMoisture |-> Num(0, 70)]

\* C5 as the specification states it: rainfall 45, waterLevel 4.2,
\* soilMoisture 0.7 add 38 + 28 + 12 = 78, no multiplier, final score 78,
\* which classifies as high.
C5_HeavyRainfallScores78 ==
    (Returned /\ args = HeavyRainfall)
    => /\ RainfallContribution(args.rainfall) = Num(38, 0)
       /\ WaterLevelContribution(args.waterLevel) = Num(28, 0)
       /\ SoilMoistureContribution(args.soilMoisture) = Num(12, 0)
       /\ ~CombinedRisk(args.rainfall, args.waterLevel, args.soilMoisture)
       /\ ret[1] = Num(78, 0)
       /\ RiskLevel(ret[1]) = "high"

\* C5 amended: soilMoisture 0.7 is not strictly above 0.7, so it falls in
\* the >0.6 bucket: 38 + 28 + 8 = 74, no multiplier, final score 74, which
\* classifies as high.
C5_HeavyRainfallScores74 ==
    (Returned /\ args = HeavyRainfall)
    => /\ RainfallContribution(args.rainfall) = Num(38, 0)
       /\ WaterLevelContribution(args.waterLevel) = Num(28, 0)
       /\ SoilMoistureContribution(args.soilMoisture) = Num(8, 0)
       /\ ~CombinedRisk(args.rainfall, args.waterLevel, args.soilMoisture)
       /\ ret[1] = Num(74, 0)
       /\ RiskLevel(ret[1]) = "high"

C5_Witness == args = HeavyRainfall /\ ret = <<Num(74, 0)>>

----------------------------------------------------------------------------
(* The pipeline's claims.                                                  *)

Range(f) == {f[x] : x \in DOMAIN f}

\* Every record a cycle has created: the documents still held by a running
\* callback, the stored ones and the emitted ones.
Created ==
    {cycle[c].newData[1] : c \in {k \in InFlight : cycle[k].newData # <<>>}}
    \cup Range(store) \cup Range(emitted)

\* C6: in every record a cycle creates, riskLevel is low when
\* prediction < 30, medium when 30 <= prediction < 70 and high when
\* prediction >= 70; so 29 is low, 30 and 69 are medium, 70 is high.
C6_RiskLevelFromPrediction ==
    \A d \in Created :
        /\ d.prediction < Num(30, 0) => d.riskLevel = "low"
        /\ (Num(30, 0) <= d.prediction /\ d.prediction < Num(70, 0))
              => d.riskLevel = "medium"
        /\ d.prediction >= Num(70, 0) => d.riskLevel = "high"
        /\ d.prediction = Num(29, 0) => d.riskLevel = "low"
        /\ d.prediction = Num(30, 0) => d.riskLevel = "medium"
        /\ d.prediction = Num(69, 0) => d.riskLevel = "medium"
        /\ d.prediction = Num(70, 0) => d.riskLevel = "high"

\* A stored record the model scored 30 (from an output of 0.295).
C6_Witness ==
    \E i \in DOMAIN store :
        /\ store[i].prediction = Num(30, 0)
        /\ store[i].riskLevel = "medium"
        /\ scoredVia[i] = "model"

\* C7: every record a cycle persists has a prediction that is an integer in
\* [0,100], whichever path of the engine produced it and whatever numbers
\* the three providers returned.
C7_StoredPredictionIsPercent ==
    \A i \in DOMAIN store :
        /\ IsInteger(store[i].prediction)
        /\ 0 <= store[i].prediction
        /\ store[i].prediction <= Num(100, 0)

ProviderNames == {"OpenWeatherMap", "USGS", "SoilGrids"}

\* C8: no failure of a provider call makes a fetch reject: every settled
\* fetch holds a Reading with a source, no cycle ends in the catch block
\* because of a fetch, and every cycle gets to scoring.
C8_FetchNeverRejects ==
    /\ \A c \in InFlight :
          /\ \A p \in Promises(c) :
                /\ p.state \in {"pending", "fulfilled"}
                /\ p.state = "fulfilled"
                      => p.value.source \in ProviderNames \cup {"fallback"}
          /\ cycle[c].pc # "fetching" => c \in DOMAIN scoredVia
                                         \/ cycle[c].pc \in {"scoring", "loading"}
    /\ \A i \in DOMAIN outcome :
          /\ outcome[i] # "fetchError"
          /\ i \in DOMAIN scoredVia

\* All three providers failed, and the cycle was scored and stored.
C8_Witness ==
    \E i \in DOMAIN store :
        /\ store[i].dataSource = [rainfall |-> "fallback",
                                  waterLevel |-> "fallback",
                                  soilMoisture |-> "fallback"]
        /\ i \in DOMAIN scoredVia

----------------------------------------------------------------------------
(* The fetch functions' claims, checked under SpecFetch.                    *)

\* The provider call failed: it was rejected, or it answered with a body
\* that is malformed or lacks the number asked for.
RainfallFailed == provider.rainfall.kind # "ok" \/ ~provider.rainfall.list
WaterLevelFailed ==
    \/ provider.waterLevel.kind # "ok"
    \/ ~provider.waterLevel.data
    \/ provider.waterLevel.val = <<>>
SoilMoistureFailed ==
    \/ provider.soilMoisture.kind # "ok"
    \/ ~provider.soilMoisture.layers
    \/ provider.soilMoisture.mean = <<>>

\* C9: on any failure of a source, a malformed answer or one without the
\* expected number included, the client returns exactly its fallback
\* constant (0, 2.1, 0.5) with the source "fallback"; a fallback constant
\* never comes under the provider's name.
C9_FailureGivesFallbackPair ==
    /\ (fetched.rainfall # Pending /\ RainfallFailed)
          => fetched.rainfall = Fulfilled(Reading(0, "fallback"))
    /\ (fetched.waterLevel # Pending /\ WaterLevelFailed)
          => fetched.waterLevel = Fulfilled(Reading(Num(2, 10), "fallback"))
    /\ (fetched.soilMoisture # Pending /\ SoilMoistureFailed)
          => fetched.soilMoisture = Fulfilled(Reading(Num(0, 50), "fallback"))

\* C10: on a successful answer the client returns the number in it (the
\* gauge value for the water level, mean / 100 for the soil moisture, the
\* three-hour rain, none meaning 0, for the rainfall) with the provider's
\* name, for every value the provider can report, zero included.
C10_SuccessGivesProviderValue ==
    /\ (fetched.rainfall # Pending /\ ~RainfallFailed)
          => /\ fetched.rainfall.state = "fulfilled"
             /\ fetched.rainfall.value.source = "OpenWeatherMap"
             /\ fetched.rainfall.value.value =
                   (IF provider.rainfall.rain3h = <<>> THEN 0
                    ELSE provider.rainfall.rain3h[1])
    /\ (fetched.waterLevel # Pending /\ ~WaterLevelFailed)
          => /\ fetched.waterLevel.state = "fulfilled"
             /\ fetched.waterLevel.value.source = "USGS"
             /\ fetched.waterLevel.value.value =
                   (LET text == provider.waterLevel.val[1]
                    IN  text[1] * (text[2] * Scale + text[3]))
    /\ (fetched.soilMoisture # Pending /\ ~SoilMoistureFailed)
          => /\ fetched.soilMoisture.state = "fulfilled"
             /\ fetched.soilMoisture.value.source = "SoilGrids"
             /\ fetched.soilMoisture.value.value * 100 =
                   provider.soilMoisture.mean[1] * Scale

----------------------------------------------------------------------------
(* The cycle's fan-out and fan-in, checked under Spec.                      *)

FetchFields == {"rainfallData", "waterLevelData", "soilMoistureData"}

\* C11: the three fetches of a cycle start together and scoring begins only
\* once all three have settled with a Reading: no cycle leaves the fetching
\* stage, and none is scored, with fewer than three Readings; and a step
\* that settles one fetch, with a failure or not, leaves the other two as
\* they were (a pending one pending, a Reading the same Reading).
C11_ScoreNeedsThreeReadings ==
    [][/\ \A c \in DOMAIN cycle' \ DOMAIN cycle :
             \A f \in FetchFields : cycle'[c][f] = Pending
       /\ \A c \in DOMAIN cycle' :
             (cycle'[c].pc # "fetching" \/ c \in DOMAIN scoredVia')
                => \A f \in FetchFields : cycle'[c][f].state = "fulfilled"
       /\ \A c \in DOMAIN cycle \cap DOMAIN cycle' :
             /\ \A f \in FetchFields :
                   cycle[c][f] # Pending => cycle'[c][f] = cycle[c][f]
             /\ \A f, g \in FetchFields :
                   (f # g /\ cycle'[c][f] # cycle[c][f])
                      => cycle'[c][g] = cycle[c][g]
       /\ \A c \in DOMAIN cycle' :
             cycle'[c].newData # <<>>
                => /\ cycle'[c].newData[1].rainfall
                         = cycle'[c].rainfallData.value.value
                   /\ cycle'[c].newData[1].waterLevel
                         = cycle'[c].waterLevelData.value.value
                   /\ cycle'[c].newData[1].soilMoisture
                         = cycle'[c].soilMoistureData.value.value]_vars

\* The rainfall fetch timed out; the record was scored from its fallback
\* and from the two Readings the other providers gave.
C11_Witness ==
    \E i \in DOMAIN store :
        /\ store[i].dataSource = [rainfall |-> "fallback",
                                  waterLevel |-> "USGS",
                                  soilMoisture |-> "SoilGrids"]
        /\ store[i].waterLevel = Num(5, 20)
        /\ store[i].soilMoisture = Num(0, 95)
        /\ i \in DOMAIN scoredVia

----------------------------------------------------------------------------
(* The engine's one-time load, checked under Spec.                          *)

\* A step in which a call of loadModel begins a load: it becomes the owner
\* of the load in progress.
LoadBegins == loadOwner' # loadOwner /\ loadOwner' # -1

\* C12: the model load is attempted at most once in the life of the
\* process: once a call of loadModel has set modelLoadAttempted, the flag
\* stays set whether the load succeeds or fails, and no later call, from
\* the listen callback or from a scoring cycle, begins another load.
C12_LoadAttemptedOnce ==
    [][/\ modelLoadAttempted => modelLoadAttempted'
       /\ modelLoadAttempted => ~LoadBegins
       /\ LoadBegins => modelLoadAttempted']_vars

\* The load failed, and a cycle called loadModel afterwards and was scored:
\* no load is in progress.
C12_Witness ==
    /\ modelLoadAttempted
    /\ usingFallback
    /\ model = "null"
    /\ loadOwner = -1
    /\ \E c \in InFlight : cycle[c].pc = "saving" /\ cycle[c].loadedModel = "null"

\* The cycles scored in this step.
ScoredNow == DOMAIN scoredVia' \ DOMAIN scoredVia

\* The heuristic's result for the Readings of a record.
HeuristicOf(d) == calculateRiskFallback(d.rainfall, d.waterLevel, d.soilMoisture)

\* C13: once the load has failed or the model file was found absent
\* (usingFallback set), the engine stays heuristic-only: the flag stays
\* set, no model is ever loaded, and every cycle scored from then on
\* carries exactly the heuristic's result for its Readings.
C13_HeuristicOnlyIsPermanent ==
    [][usingFallback =>
          /\ usingFallback'
          /\ model = "null" /\ model' = "null"
          /\ \A c \in ScoredNow :
                /\ scoredVia'[c] = "fallback"
                /\ cycle'[c].newData[1].prediction
                      = HeuristicOf(cycle'[c].newData[1])]_vars

\* The load failed and a record was scored 100 by the heuristic (55mm,
\* 5.2m, 0.95) although the inference stood ready to answer.
C13_Witness ==
    /\ usingFallback
    /\ model = "null"
    /\ \E i \in DOMAIN store :
          /\ scoredVia[i] = "fallback"
          /\ store[i].rainfall = Num(55, 0)
          /\ store[i].prediction = Num(100, 0)

\* C14: a scoring call that arrives while the one-time load is in progress
\* waits for its outcome, so that once the load has succeeded every cycle
\* of the process was answered by the model's inference (or, on an
\* inference error, by the heuristic for that call) and none by the
\* heuristic for want of a model.
C14_LoadSucceededMeansModelScoredAll ==
    model = "loaded" =>
        \A c \in DOMAIN scoredVia :
            scoredVia[c] \in {"model", "fallbackAfterError"}

----------------------------------------------------------------------------
(* Inference errors, checked under SpecOverlap (two cycles).                *)

\* The cycles whose predictFloodRisk call gets loadModel's answer in this
\* step.
AskedNow ==
    {c \in DOMAIN cycle \cap DOMAIN cycle' :
        cycle[c].pc = "fetching" /\ cycle'[c].pc # "fetching"}

\* C15: when the inference throws in a scoring call made with the model
\* loaded, that call returns the heuristic's result for its Readings and
\* the engine is left as it was: the model stays loaded, usingFallback
\* stays false, and a scoring call made afterwards is handed the model and
\* tries the inference again.
C15_InferenceErrorIsPerCall ==
    [][/\ \A c \in ScoredNow :
             /\ cycle[c].loadedModel = "model"
                   => scoredVia'[c] \in {"model", "fallbackAfterError"}
             /\ scoredVia'[c] = "fallbackAfterError"
                   => /\ cycle[c].loadedModel = "model"
                      /\ cycle'[c].newData[1].prediction
                            = HeuristicOf(cycle'[c].newData[1])
                      /\ UNCHANGED modelVars
       /\ model = "loaded"
             => /\ model' = "loaded"
                /\ usingFallback' = usingFallback
                /\ ~usingFallback
                /\ \A c \in AskedNow : cycle'[c].loadedModel = "model"]_vars

\* The inference threw for the first record scored, which holds the
\* heuristic's 100, and answered 0.12 for the record scored after it; the
\* model is still loaded.
C15_Witness ==
    /\ model = "loaded"
    /\ ~usingFallback
    /\ \E i, j \in DOMAIN store :
          /\ store[i].timestamp < store[j].timestamp
          /\ scoredVia[i] = "fallbackAfterError"
          /\ store[i].prediction = Num(100, 0)
          /\ scoredVia[j] = "model"
          /\ store[j].prediction = Num(12, 0)

----------------------------------------------------------------------------
(* sendFloodAlert, checked under Spec.                                      *)

\* The messages handed to admin.messaging().send in this step.
HandedNow == {fcm'[k] : k \in (DOMAIN fcm') \ (DOMAIN fcm)}

\* C16: a message is handed to the notifier for a record only when, at
\* that moment, the record's riskLevel is not low and its sentAlert is
\* false: no message is ever handed over for a low-risk record or for one
\* whose sentAlert is already true.
C16_AlertOnlyIfNotLowAndUnsent ==
    [][/\ \A k \in DOMAIN fcm : fcm'[k] = fcm[k]
       /\ \A m \in HandedNow :
             /\ m.id \in DOMAIN cycle
             /\ cycle[m.id].newData # <<>>
             /\ LET data == cycle[m.id].newData[1]
                IN  /\ data.riskLevel # "low"
                    /\ data.sentAlert = FALSE
                    /\ m = Message(data)
                    /\ m.level \in {"medium", "high"}
                    /\ store'[m.id].sentAlert = FALSE]_vars

\* A medium-risk record's message is with the notifier, the record's
\* sentAlert still false.
C16_Witness ==
    \E c \in InFlight :
        /\ cycle[c].pc = "sending"
        /\ cycle[c].newData[1].riskLevel = "medium"
        /\ ~cycle[c].newData[1].sentAlert
        /\ \E k \in DOMAIN fcm : fcm[k].id = c

\* The notification for record i was delivered.
Delivered(i) == i \in DOMAIN sendOutcome /\ sendOutcome[i]

\* C17: in every state after the cycle's sendFloodAlert has returned, the
\* stored copy of the record has sentAlert true exactly when its
\* notification was delivered, the case where the update of the stored
\* record fails included.
C17_StoredSentAlertIffDelivered ==
    \A i \in DOMAIN outcome \cap DOMAIN store :
        store[i].sentAlert = Delivered(i)

\* The messages handed to the notifier for record i, by their place in fcm.
MessagesFor(i, handed) == {k \in DOMAIN handed : handed[k].id = i}

\* C18: when the delivery of a record's notification fails, the record's
\* sentAlert stays false, in memory and in the store, the callback ends
\* normally (the failure does not reach its catch block), and the notifier
\* was called once for that record, not a second time.
C18_FailedDeliveryLeavesUnsent ==
    [][\A i \in DOMAIN sendOutcome' :
          ~sendOutcome'[i] =>
             /\ i \in DOMAIN outcome' /\ outcome'[i] = "completed"
             /\ i \notin DOMAIN cycle'
             /\ store'[i].sentAlert = FALSE
             /\ Cardinality(MessagesFor(i, fcm')) = 1
             /\ i \notin DOMAIN sendOutcome
                   => /\ cycle[i].newData[1].sentAlert = FALSE
                      /\ fcm' = fcm
                      /\ store' = store]_vars

\* The delivery for a stored high-risk record failed and its cycle ended
\* normally.
C18_Witness ==
    \E i \in DOMAIN sendOutcome :
        /\ ~sendOutcome[i]
        /\ outcome[i] = "completed"
        /\ store[i].riskLevel = "high"
        /\ ~store[i].sentAlert

----------------------------------------------------------------------------
(* The alert step called again on the same record, checked under SpecAlert. *)

\* An earlier call on the record delivered its notification.
DeliveredBefore ==
    \E k \in DOMAIN alert.returned :
        alert.returned[k] \in {"sent", "updateFailed"}

\* C19: a record's sentAlert goes from false to true at most once and never
\* back, in memory and in the store; and a further call of the alert step
\* on a record whose earlier call delivered returns at once: it hands
\* nothing to the notifier and writes nothing.
C19_SentAlertOnceAndSecondCallNoOp ==
    [][/\ alert.data.sentAlert => alert'.data.sentAlert
       /\ \A i \in DOMAIN store :
             /\ i \in DOMAIN store'
             /\ store[i].sentAlert => store'[i].sentAlert
       /\ (~alert.data.sentAlert /\ alert'.data.sentAlert)
             => ~DeliveredBefore
       /\ (DeliveredBefore /\ alert.pc = "idle" /\ alert' # alert)
             => /\ fcm' = fcm
                /\ store' = store
                /\ alert'.data = alert.data
                /\ alert'.pc = "idle"
                /\ alert'.returned = Append(alert.returned, "skipped")]_vars

\* The first call on a high-risk record delivered and stored sentAlert; the
\* second returned at once, one message in all.
C19_Witness ==
    /\ alert.returned = <<"sent", "skipped">>
    /\ alert.data.riskLevel = "high"
    /\ alert.data.sentAlert
    /\ store[1].sentAlert
    /\ Len(fcm) = 1

----------------------------------------------------------------------------
(* The notifier unavailable, checked under Spec.                            *)

\* C20: when Firebase was not initialized, the alert step does nothing for
\* any record: no message is handed to the notifier, sentAlert stays false
\* in memory and in the store, a stored record is never written again, and
\* the cycle of every saved record ends normally.
C20_NoNotifierMeansNoOp ==
    [][~firebaseInitialized =>
          /\ ~firebaseInitialized'
          /\ fcm' = <<>>
          /\ sendOutcome' = <<>>
          /\ \A c \in DOMAIN cycle' :
                /\ cycle'[c].pc \notin {"sending", "updating"}
                /\ cycle'[c].newData # <<>>
                      => cycle'[c].newData[1].sentAlert = FALSE
          /\ \A i \in DOMAIN store' :
                /\ store'[i].sentAlert = FALSE
                /\ i \in DOMAIN store => store'[i] = store[i]
          /\ \A c \in DOMAIN cycle :
                (cycle[c].pc = "saving" /\ c \in DOMAIN store')
                   => /\ c \in DOMAIN outcome'
                      /\ outcome'[c] = "completed"
                      /\ store'[c] = cycle[c].newData[1]]_vars

\* Firebase is not initialized; a high-risk record was saved and its cycle
\* ended normally with nothing handed to the notifier.
C20_Witness ==
    /\ ~firebaseInitialized
    /\ fcm = <<>>
    /\ \E i \in DOMAIN store :
          /\ store[i].riskLevel = "high"
          /\ ~store[i].sentAlert
          /\ i \in DOMAIN outcome
          /\ outcome[i] = "completed"

----------------------------------------------------------------------------
(* The order of a cycle's steps, checked under Spec.                        *)

\* The step a running callback is at: 1 fetching, 2 scoring (the call of
\* predictFloodRisk, its wait for the load included), 3 persisting,
\* 5 alerting; broadcasting, 4, is the emit that follows a successful save
\* without an await between them.
StageOf(pc) ==
    CASE pc = "fetching" -> 1
      [] pc \in {"loading", "scoring"} -> 2
      [] pc = "saving" -> 3
      [] pc \in {"sending", "updating"} -> 5

EmittedIds(events) == {events[k].id : k \in DOMAIN events}
HandedIds(handed) == {handed[k].id : k \in DOMAIN handed}

\* C21: every cycle goes through fetching, scoring, persisting,
\* broadcasting and alerting in that order, never back and never past a
\* step: a record is saved only after it was scored, emitted only in the
\* step its save succeeds, and handed to the alert step only once emitted.
C21_StepsInOrder ==
    [][/\ \A c \in DOMAIN cycle' \ DOMAIN cycle : cycle'[c].pc = "fetching"
       /\ \A c \in DOMAIN cycle \cap DOMAIN cycle' :
             /\ StageOf(cycle'[c].pc) >= StageOf(cycle[c].pc)
             /\ StageOf(cycle'[c].pc) # StageOf(cycle[c].pc)
                   => \/ StageOf(cycle'[c].pc) = StageOf(cycle[c].pc) + 1
                      \/ /\ cycle[c].pc = "saving"
                         /\ c \in EmittedIds(emitted')
       /\ \A c \in DOMAIN cycle' :
             /\ cycle'[c].pc = "saving" => c \in DOMAIN scoredVia'
             /\ StageOf(cycle'[c].pc) = 5
                   => c \in DOMAIN store' /\ c \in EmittedIds(emitted')
       /\ \A i \in DOMAIN store' \ DOMAIN store :
             /\ i \in DOMAIN scoredVia
             /\ cycle[i].pc = "saving"
             /\ i \in EmittedIds(emitted')
       /\ \A i \in EmittedIds(emitted') \ EmittedIds(emitted) :
             i \in DOMAIN store' \ DOMAIN store
       /\ \A i \in HandedIds(fcm') \ HandedIds(fcm) :
             i \in EmittedIds(emitted')
       /\ \A i \in DOMAIN outcome' \ DOMAIN outcome :
             (cycle[i].pc = "saving" /\ outcome'[i] = "completed")
                => i \in EmittedIds(emitted')]_vars

\* A cycle at its last await: its record was scored, saved, emitted and
\* handed to the notifier.
C21_Witness ==
    \E c \in InFlight :
        /\ cycle[c].pc = "updating"
        /\ c \in DOMAIN scoredVia
        /\ c \in DOMAIN store
        /\ c \in EmittedIds(emitted)
        /\ c \in HandedIds(fcm)

\* C22: when newData.save() fails, the rest of the cycle is dropped: the
\* record is not stored, no floodUpdate is emitted and no message is handed
\* to the notifier for it, and the failure ends in the callback's own catch
\* block: the callback has returned and the server goes on listening.
C22_SaveFailureAbortsCycle ==
    \A i \in DOMAIN outcome :
        outcome[i] = "saveError" =>
            /\ i \notin InFlight
            /\ i \in DOMAIN scoredVia
            /\ i \notin DOMAIN store
            /\ i \notin EmittedIds(emitted)
            /\ i \notin HandedIds(fcm)
            /\ i \notin DOMAIN sendOutcome
            /\ listening

\* A scored cycle whose save failed.
C22_Witness ==
    \E i \in DOMAIN outcome :
        /\ outcome[i] = "saveError"
        /\ i \in DOMAIN scoredVia
        /\ firebaseInitialized

----------------------------------------------------------------------------
(* Cycles after a failed cycle, checked under SpecOverlap (two ticks).      *)

\* Cycle i ended early or short of its purpose: its save failed, or the
\* delivery of its notification did.
Failed(i) ==
    \/ i \in DOMAIN outcome /\ outcome[i] # "completed"
    \/ i \in DOMAIN sendOutcome /\ ~sendOutcome[i]

\* C23: no failure in a cycle stops the pipeline.  After a cycle failed the
\* server is still listening and the next cron tick can fire; the step in
\* which a cycle ends leaves the engine, the notifier's state and every
\* other cycle as they were; and a cycle that starts starts from the same
\* locals whatever happened before.
C23_FailureStopsNothing ==
    /\ [](\A i \in DOMAIN outcome \cup DOMAIN sendOutcome :
             Failed(i) =>
                /\ listening
                /\ (ticks < MaxOverlapTicks
                    /\ Cardinality(InFlight) < MaxOverlapTicks)
                      => ENABLED Tick(MaxOverlapTicks, MaxOverlapTicks))
    /\ [][/\ \A i \in DOMAIN outcome' \ DOMAIN outcome :
                /\ UNCHANGED <<listening, firebaseInitialized, modelVars,
                               ticks>>
                /\ \A c \in DOMAIN cycle \ {i} :
                      c \in DOMAIN cycle' /\ cycle'[c] = cycle[c]
          /\ \A c \in DOMAIN cycle' \ DOMAIN cycle :
                cycle'[c] = NewCycle]_vars

\* The save of the first cycle failed; the second cycle, scored after the
\* first, was saved and completed.
C23_Witness ==
    /\ 1 \in DOMAIN outcome
    /\ outcome[1] = "saveError"
    /\ 2 \in DOMAIN outcome
    /\ outcome[2] = "completed"
    /\ 2 \in DOMAIN store
    /\ store[2].timestamp = 2

\* C24: at most one cycle is in flight at any time: a tick that arrives
\* while an earlier callback is still between its fetches and its alert
\* step is held back or dropped, and never runs interleaved with it.
C24_AtMostOneCycleInFlight == Cardinality(InFlight) <= 1

----------------------------------------------------------------------------
(* The manual trigger, checked under SpecTrigger.                           *)

\* The cycles started so far.
Started == DOMAIN cycle \cup DOMAIN outcome

\* C25: a request to the manual trigger that arrives while no cycle is in
\* flight makes one full cycle run, as a cron tick does: the step that
\* answers it starts a cycle at its fetches.
C25_TriggerRunsOneCycle ==
    [][(triggers' = triggers + 1 /\ InFlight = {})
          => \E c \in DOMAIN cycle' :
                /\ c \notin Started
                /\ cycle'[c] = NewCycle]_vars

----------------------------------------------------------------------------
(* The mode the engine reports, checked under Spec.                         *)

\* C26: once the server answers requests, the mode it reports matches how
\* a score would be computed at that moment: it reports the model only
\* while a model is loaded and reports the fallback whenever none is,
\* before and during the one-time load included.
C26_ReportedModeMatchesScoring ==
    listening => (modelStatus = "ai-model" <=> model = "loaded")

----------------------------------------------------------------------------
(* What the alert step may write, checked under Spec.                       *)

\* The record with its sentAlert as at creation.
WithoutSentAlert(d) == [d EXCEPT !.sentAlert = FALSE]

\* C27: after a record was persisted, the alert step changes no field of it
\* but sentAlert: the stored record and the document in memory are, field
\* for field apart from sentAlert, the record as it was emitted right after
\* its save (readings, sources, prediction, riskLevel, location, timestamp).
C27_AlertWritesOnlySentAlert ==
    \A k \in DOMAIN emitted :
        LET e == emitted[k]
        IN  /\ e.id \in DOMAIN store
            /\ WithoutSentAlert(store[e.id]) = e
            /\ e.id \in InFlight
                  => WithoutSentAlert(cycle[e.id].newData[1]) = e

\* A record whose alert step ran to its end: delivered, sentAlert stored.
C27_Witness ==
    \E k \in DOMAIN emitted :
        /\ ~emitted[k].sentAlert
        /\ store[emitted[k].id].sentAlert
        /\ emitted[k].id \in DOMAIN outcome

----------------------------------------------------------------------------
(* The prediction test, checked under SpecTest.                             *)

\* The test case was scored by the script's heuristic.
ScoredByFallback == ret # <<>> /\ ~ret[1].failed /\ ret[1].usingFallback

Percents == {Num(n, 0) : n \in 0..100}

\* C28: in heuristic mode every scenario listed under LOW RISK scores
\* below 30, every one under MEDIUM RISK in [30,70) and every one under
\* HIGH RISK 70 or more, and the script classifies a score with the
\* thresholds the server uses (line 186 against server.js line 365).
C28_ScenariosScoreInTheirBand ==
    /\ ScoredByFallback =>
          /\ args.category = "LOW RISK"
                => ret[1].risk < Num(30, 0) /\ ret[1].riskLevel = "LOW"
          /\ args.category = "MEDIUM RISK"
                => /\ Num(30, 0) <= ret[1].risk
                   /\ ret[1].risk < Num(70, 0)
                   /\ ret[1].riskLevel = "MEDIUM"
          /\ args.category = "HIGH RISK"
                => ret[1].risk >= Num(70, 0) /\ ret[1].riskLevel = "HIGH"
    /\ \A risk \in Percents :
          /\ testRiskLevel(risk) = "LOW" <=> RiskLevel(risk) = "low"
          /\ testRiskLevel(risk) = "MEDIUM" <=> RiskLevel(risk) = "medium"
          /\ testRiskLevel(risk) = "HIGH" <=> RiskLevel(risk) = "high"

\* Combined Medium (22mm, 0.7, 3.2m) scored 56 by the heuristic: soil
\* moisture 0.7 is not above 0.7, so the score is not multiplied.
C28_Witness ==
    /\ ScoredByFallback
    /\ args.name = "Combined Medium"
    /\ ret[1].risk = Num(56, 0)
    /\ ret[1].riskLevel = "MEDIUM"

\* C29: calculateRiskFallback of test-prediction.js and calculateRiskFallback
\* of server.js return the same score for every input triple: the score the
\* server's function returned for the arguments is the score the script's
\* function computes for them.
C29_TestFallbackEqualsServerFallback ==
    ret # <<>> =>
        ret[1] = testCalculateRiskFallback(args.rainfall, args.waterLevel,
                                           args.soilMoisture)

\* The server's function has returned for a triple in the combined-risk
\* branch, where the sum is multiplied by 1.3 before it is rounded.
C29_Witness ==
    /\ ret # <<>>
    /\ CombinedRisk(args.rainfall, args.waterLevel, args.soilMoisture)
    /\ ret[1] > 0
    /\ ret[1] < 100 * Scale

----------------------------------------------------------------------------
(* The Store, checked under Spec.                                           *)

\* The first save of the cycle's record succeeded: the callback went on past
\* line 385, or ended without an error.
SaveSucceeded(c) ==
    \/ c \in InFlight /\ cycle[c].pc \in {"sending", "updating"}
    \/ c \in DOMAIN outcome /\ outcome[c] = "completed"

\* The three values and the three source strings of a record.
ReadingsOf(d) ==
    [rainfall |-> d.rainfall, waterLevel |-> d.waterLevel,
     soilMoisture |-> d.soilMoisture, dataSource |-> d.dataSource]

\* The three values and the three source strings the fetches of cycle c
\* resolved with.
ReadingsOfCycle(c) ==
    [rainfall |-> cycle[c].rainfallData.value.value,
     waterLevel |-> cycle[c].waterLevelData.value.value,
     soilMoisture |-> cycle[c].soilMoistureData.value.value,
     dataSource |-> [rainfall |-> cycle[c].rainfallData.value.source,
                     waterLevel |-> cycle[c].waterLevelData.value.source,
                     soilMoisture |-> cycle[c].soilMoistureData.value.source]]

\* C30: the stored records are exactly those of the cycles whose save
\* succeeded, one each, and none for a cycle that is at or before its save
\* or ended there; a step adds at most one record, and only as the save of
\* a cycle succeeds, carrying that cycle's three values and three sources;
\* no later step, the sentAlert write-back included, adds a record for the
\* cycle, removes one or changes the values and sources of a stored one.
C30_OneRecordPerSavedCycle ==
    /\ [](/\ DOMAIN store = {c \in 1..ticks : SaveSucceeded(c)}
          /\ \A c \in DOMAIN store : store[c].id = c)
    /\ [][/\ DOMAIN store \subseteq DOMAIN store'
          /\ Cardinality(DOMAIN store') <= Cardinality(DOMAIN store) + 1
          /\ \A c \in DOMAIN store' \ DOMAIN store :
                /\ c \in InFlight
                /\ cycle[c].pc = "saving"
                /\ ReadingsOf(store'[c]) = ReadingsOfCycle(c)
          /\ \A c \in DOMAIN store :
                ReadingsOf(store'[c]) = ReadingsOf(store[c])]_vars

\* The cycle's save succeeded, its notification was delivered and the
\* write-back was stored: the Store holds one record, the cycle's, with
\* sentAlert set.
C30_Witness ==
    /\ DOMAIN outcome = {1}
    /\ outcome[1] = "completed"
    /\ DOMAIN store = {1}
    /\ store[1].sentAlert
    /\ store[1].dataSource.rainfall # store[1].dataSource.waterLevel

====
